---------------------------- MODULE Spec2Model ----------------------------
(***************************************************************************)
(* Model of src/src/agent/graph.py: a LangGraph agent that chats and edits *)
(* one markdown artifact.  The graph is START -> agent -> (tools ->        *)
(* apply_edits -> agent)* -> END.                                          *)
(*                                                                         *)
(* Text is modelled as a sequence of one-character strings, so that        *)
(* rstrip, "in" and str.replace are computed character by character.      *)
(***************************************************************************)
EXTENDS Naturals, Sequences, FiniteSets, TLC

VARIABLES
    messages,   \* State.messages: the history
    ui,         \* State.ui: the UI notifications pushed so far
    artifact,   \* State.artifact: a text, or None when the key is absent
    pc,         \* the node the graph runs next: idle/agent/tools/apply_edits/done/failed
    nextId,     \* source of fresh ids (uuid4)
    prompt,     \* the artifact embedded in the last SystemMessage sent to the model
    edit_from,  \* State.artifact as the last run of apply_edits found it
    turn_start, \* Len(messages) when the current turn was started
    turn_ui,    \* Len(ui) when the current turn was started
    turns,      \* number of turns started
    calls,      \* number of tool calls the model has issued
    applied     \* the batches apply_edits has applied, in the order of its runs

vars == <<messages, ui, artifact, pc, nextId, prompt, edit_from,
          turn_start, turn_ui, turns, calls, applied>>

---------------------------------------------------------------------------
(* Bounds of the model *)

MaxTurns == 2       \* turns (user messages) per run
MaxCalls == 3       \* tool calls issued by the model per run
MaxArgLen == 2      \* length of an argument text in the edit specification
MaxArtifactLen == 3 \* length of an incoming artifact in the edit specification
MaxBatch == 2       \* calls in a batch of the edit specification
MaxHistory == 3     \* messages in a history of the routing specification

---------------------------------------------------------------------------
(* Text *)

NL == "\n"
Whitespace == {NL}
Char == {"a", "b", NL}
ArgChar == {"a", "b"}

\* State.artifact when the key is absent (state.get("artifact") is None).
\* A one-element tuple holding a non-character, so that it compares with texts.
None == <<"None">>

\* The placeholder document: non-empty text ending in a newline.
DEFAULT_ARTIFACT == <<"d", NL>>

TextsUpTo(S, n) == UNION {[1..k -> S] : k \in 0..n}

RECURSIVE rstrip(_)
rstrip(s) ==
    IF s # <<>> /\ s[Len(s)] \in Whitespace
    THEN rstrip(SubSeq(s, 1, Len(s) - 1))
    ELSE s

\* old occurs in s at position i (1-based)
OccursAt(old, s, i) ==
    /\ i >= 1
    /\ i + Len(old) - 1 <= Len(s)
    /\ SubSeq(s, i, i + Len(old) - 1) = old

\* Python's "old in s"
In(old, s) == \E i \in 1..(Len(s) + 1) : OccursAt(old, s, i)

\* str.find: the least position where old occurs (0 when there is none)
Find(old, s) ==
    IF In(old, s)
    THEN CHOOSE i \in 1..(Len(s) + 1) :
            /\ OccursAt(old, s, i)
            /\ \A j \in 1..(i - 1) : ~OccursAt(old, s, j)
    ELSE 0

RECURSIVE Interleave(_, _)
Interleave(s, new) ==
    IF s = <<>> THEN new ELSE new \o <<Head(s)>> \o Interleave(Tail(s), new)

\* The mutant of replace: only the first occurrence is replaced.
replace_first_only(s, old, new) ==
    IF old = <<>> \/ ~In(old, s) THEN s
    ELSE LET i == Find(old, s)
         IN SubSeq(s, 1, i - 1) \o new \o SubSeq(s, i + Len(old), Len(s))

\* str.replace(old, new): every occurrence, scanning left to right, the scan
\* resuming after each replaced occurrence.
RECURSIVE replace(_, _, _)
replace(s, old, new) ==
    IF old = <<>> THEN Interleave(s, new)
    ELSE IF ~In(old, s) THEN s
    ELSE LET i == Find(old, s)
         IN SubSeq(s, 1, i - 1) \o new
            \o replace(SubSeq(s, i + Len(old), Len(s)), old, new)

---------------------------------------------------------------------------
(* Tool calls and messages *)

ToolCall(name, args) == [name |-> name, args |-> args]

NoArgs == [k \in {} |-> <<>>]

\* dict.get(k, d)
Get(args, k, d) == IF k \in DOMAIN args THEN args[k] ELSE d

\* truthiness of dict.get(k): a missing key gives None, an empty text is falsy
Truthy(args, k) == k \in DOMAIN args /\ args[k] # <<>>

HumanMessage(id) ==
    [type |-> "human", id |-> id, tool_calls |-> <<>>, content |-> "", index |-> 0]

\* Mutant: the assistant message gets a constant id instead of a fresh one.
AIMessage_fixed_id(id, tool_calls) ==
    [type |-> "ai", id |-> 0, tool_calls |-> tool_calls, content |-> "", index |-> 0]

AIMessage(id, tool_calls) ==
    [type |-> "ai", id |-> id, tool_calls |-> tool_calls, content |-> "", index |-> 0]

ToolMessage(id, content, i) ==
    [type |-> "tool", id |-> id, tool_calls |-> <<>>, content |-> content, index |-> i]

UIMessage(content, message_id) ==
    [name |-> "markdown_artifact", content |-> content, message_id |-> message_id]

TOOLS == {"update_document", "append_to_document", "replace_text"}

Required(name) ==
    CASE name = "update_document" -> {"new_content"}
      [] name = "append_to_document" -> {"content_to_add"}
      [] name = "replace_text" -> {"old_text", "new_text"}
      [] OTHER -> {}

\* What a tool returns when ToolNode runs it.
ToolReturn(name) ==
    CASE name = "update_document" -> "Document updated successfully."
      [] name = "append_to_document" -> "Content appended successfully."
      [] name = "replace_text" -> "Text replaced successfully."
      [] OTHER -> ""

\* ToolNode's message content for one call: the tool's return value, or an
\* error text when the name is no tool or the arguments fail validation.
ToolResult(call) ==
    IF call.name \notin TOOLS THEN "Error: not a valid tool"
    ELSE IF ~(Required(call.name) \subseteq DOMAIN call.args)
         THEN "Error: invalid arguments"
    ELSE ToolReturn(call.name)

\* add_messages: a message whose id is already in the history replaces that
\* message in place; any other message is appended.
RECURSIVE add_messages(_, _)
add_messages(left, right) ==
    IF right = <<>> THEN left
    ELSE LET m == Head(right)
             hit == {i \in 1..Len(left) : left[i].id = m.id}
         IN add_messages(
                IF hit = {} THEN Append(left, m)
                ELSE [left EXCEPT ![CHOOSE i \in hit : TRUE] = m],
                Tail(right))

\* ui_message_reducer with fresh notification ids: the notification is appended
ui_message_reducer(left, right) == left \o right


---------------------------------------------------------------------------
(* Nodes *)

\* Mutant: the fallback to the default artifact is forgotten.
ArtifactOrEmpty(a) == IF a = None THEN <<>> ELSE a

\* state.get("artifact") or DEFAULT_ARTIFACT: an absent key and an empty
\* text are both falsy.
ArtifactOrDefault(a) == IF a = None \/ a = <<>> THEN DEFAULT_ARTIFACT ELSE a

\* Mutant: a parameter that is present is used even when it is empty.
ApplyCall_unguarded(art, call) ==
    LET name == call.name
        args == call.args
    IN  IF name = "update_document" /\ "new_content" \in DOMAIN args
        THEN args["new_content"]
        ELSE IF name = "append_to_document" /\ "content_to_add" \in DOMAIN args
        THEN rstrip(art) \o <<NL, NL>> \o args["content_to_add"]
        ELSE IF name = "replace_text"
        THEN LET old == Get(args, "old_text", <<>>)
                 new == Get(args, "new_text", <<>>)
             IN  IF In(old, art) THEN replace(art, old, new) ELSE art
        ELSE art

\* One iteration of the loop over msg.tool_calls in apply_edits.
ApplyCall(art, call) ==
    LET name == call.name
        args == call.args
    IN  IF name = "update_document" /\ Truthy(args, "new_content")
        THEN args["new_content"]
        ELSE IF name = "append_to_document" /\ Truthy(args, "content_to_add")
        THEN rstrip(art) \o <<NL, NL>> \o args["content_to_add"]
        ELSE IF name = "replace_text"
        THEN LET old == Get(args, "old_text", <<>>)
                 new == Get(args, "new_text", <<>>)
             IN  IF old # <<>> /\ In(old, art) THEN replace(art, old, new) ELSE art
        ELSE art

\* Mutant: the calls are applied last to first.
RECURSIVE ApplyCalls_reversed(_, _)
ApplyCalls_reversed(art, tool_calls) ==
    IF tool_calls = <<>> THEN art
    ELSE ApplyCall(ApplyCalls_reversed(art, Tail(tool_calls)), Head(tool_calls))

\* Mutant: the loop stops at the first call it does not know.
RECURSIVE ApplyCalls_stop_at_unknown(_, _)
ApplyCalls_stop_at_unknown(art, tool_calls) ==
    IF tool_calls = <<>> \/ Head(tool_calls).name \notin TOOLS THEN art
    ELSE ApplyCalls_stop_at_unknown(ApplyCall(art, Head(tool_calls)), Tail(tool_calls))

\* The loop over msg.tool_calls: in the declared order, each call on the
\* result of the previous one.
RECURSIVE ApplyCalls(_, _)
ApplyCalls(art, tool_calls) ==
    IF tool_calls = <<>> THEN art
    ELSE ApplyCalls(ApplyCall(art, Head(tool_calls)), Tail(tool_calls))

HasToolCalls(m) == m.type = "ai" /\ m.tool_calls # <<>>

\* Mutant: the scan runs from the oldest message on and stops at the first AI
\* message with tool calls.
EarliestToolCalls(msgs) ==
    LET hit == {i \in 1..Len(msgs) : HasToolCalls(msgs[i])}
    IN  IF hit = {} THEN <<>>
        ELSE msgs[CHOOSE i \in hit : \A j \in hit : i <= j].tool_calls

\* reversed(state["messages"]) up to the break: the tool calls of the most
\* recent AI message that has any (none when there is no such message).
LatestToolCalls(msgs) ==
    LET hit == {i \in 1..Len(msgs) : HasToolCalls(msgs[i])}
    IN  IF hit = {} THEN <<>>
        ELSE msgs[CHOOSE i \in hit : \A j \in hit : j <= i].tool_calls

\* The value apply_edits returns for the artifact key.
apply_edits(art, msgs) == ApplyCalls(ArtifactOrDefault(art), LatestToolCalls(msgs))

END == "__end__"

\* Mutant: any message with tool calls in the history routes to tools.
should_continue_any(msgs) ==
    IF \E i \in 1..Len(msgs) : HasToolCalls(msgs[i]) THEN "tools" ELSE END

should_continue(msgs) ==
    IF msgs # <<>> /\ HasToolCalls(msgs[Len(msgs)]) THEN "tools" ELSE END

\* Mutant: only the first call of the message gets a result.
ToolNode_first_only(msgs, firstId) ==
    LET tcs == msgs[Len(msgs)].tool_calls
    IN  [i \in 1..(IF tcs = <<>> THEN 0 ELSE 1) |->
            ToolMessage(firstId + i - 1, ToolResult(tcs[i]), i)]

\* ToolNode: one ToolMessage per tool call of the last message, in order.
ToolNode(msgs, firstId) ==
    LET tcs == msgs[Len(msgs)].tool_calls
    IN  [i \in 1..Len(tcs) |-> ToolMessage(firstId + i - 1, ToolResult(tcs[i]), i)]

---------------------------------------------------------------------------
(* What the model may answer *)

Batches(S, n) == UNION {[1..k -> S] : k \in 1..n}

\* The calls the model draws from in the controller specification.
ModelCalls ==
    { ToolCall("update_document", [new_content |-> <<"a">>]),
      ToolCall("update_document", [new_content |-> <<>>]),
      ToolCall("append_to_document", [content_to_add |-> <<"b">>]),
      ToolCall("replace_text", [old_text |-> <<"a">>, new_text |-> <<>>]),
      ToolCall("replace_text", [old_text |-> <<"b">>]),
      ToolCall("delete_document", NoArgs) }

---------------------------------------------------------------------------
(* The graph *)

Init ==
    /\ messages = <<>>
    /\ ui = <<>>
    /\ artifact = None
    /\ pc = "idle"
    /\ nextId = 1
    /\ prompt = None
    /\ edit_from = None
    /\ turn_start = 0
    /\ turn_ui = 0
    /\ turns = 0
    /\ calls = 0
    /\ applied = <<>>

\* graph.invoke with a new user message: START -> agent
StartTurn ==
    /\ pc \in {"idle", "done"}
    /\ turns < MaxTurns
    /\ messages' = add_messages(messages, <<HumanMessage(nextId)>>)
    /\ nextId' = nextId + 1
    /\ turn_start' = Len(messages)
    /\ turn_ui' = Len(ui)
    /\ turns' = turns + 1
    /\ pc' = "agent"
    /\ UNCHANGED <<ui, artifact, prompt, edit_from, calls, applied>>

\* Mutant: the agent also returns the artifact it read, so the state's artifact
\* is written by the model step.
Agent_returns_artifact(tool_calls) ==
    /\ pc = "agent"
    /\ LET art == ArtifactOrDefault(artifact)
           ai_message == AIMessage(nextId, tool_calls)
       IN  /\ prompt' = art
           /\ artifact' = art
           /\ ui' = IF ai_message.tool_calls = <<>>
                    THEN ui_message_reducer(ui, <<UIMessage(art, ai_message.id)>>)
                    ELSE ui
           /\ messages' = add_messages(messages, <<ai_message>>)
    /\ pc' = IF should_continue(messages') = "tools" THEN "tools" ELSE "done"
    /\ nextId' = nextId + 1
    /\ calls' = calls + Len(tool_calls)
    /\ UNCHANGED <<edit_from, turn_start, turn_ui, turns, applied>>

\* The agent node when the model answers with tool_calls (possibly none),
\* followed by the conditional edge.
Agent(tool_calls) ==
    /\ pc = "agent"
    /\ LET art == ArtifactOrDefault(artifact)
           ai_message == AIMessage(nextId, tool_calls)
       IN  /\ prompt' = art
           /\ ui' = IF ai_message.tool_calls = <<>>
                    THEN ui_message_reducer(ui, <<UIMessage(art, ai_message.id)>>)
                    ELSE ui
           /\ messages' = add_messages(messages, <<ai_message>>)
    /\ pc' = IF should_continue(messages') = "tools" THEN "tools" ELSE "done"
    /\ nextId' = nextId + 1
    /\ calls' = calls + Len(tool_calls)
    /\ UNCHANGED <<artifact, edit_from, turn_start, turn_ui, turns, applied>>

AgentFinal == Agent(<<>>)

AgentCalls ==
    /\ calls < MaxCalls
    /\ \E tool_calls \in Batches(ModelCalls, MaxCalls - calls) : Agent(tool_calls)

\* Mutant: the notification is pushed before the model is invoked, so a
\* failing invocation leaves it behind.
AgentFails_after_push ==
    /\ pc = "agent"
    /\ ui' = ui_message_reducer(ui, <<UIMessage(ArtifactOrDefault(artifact), nextId)>>)
    /\ pc' = "failed"
    /\ UNCHANGED <<messages, artifact, nextId, prompt, edit_from,
                   turn_start, turn_ui, turns, calls, applied>>

\* The model invocation raises: nothing is returned, the turn fails.
AgentFails ==
    /\ pc = "agent"
    /\ pc' = "failed"
    /\ UNCHANGED <<messages, ui, artifact, nextId, prompt, edit_from,
                   turn_start, turn_ui, turns, calls, applied>>

\* The tools node, followed by the edge to apply_edits.
Tools ==
    /\ pc = "tools"
    /\ LET out == ToolNode(messages, nextId)
       IN  /\ messages' = add_messages(messages, out)
           /\ nextId' = nextId + Len(out)
    /\ pc' = "apply_edits"
    /\ UNCHANGED <<ui, artifact, prompt, edit_from, turn_start, turn_ui, turns, calls,
                   applied>>

\* Mutant: the edge out of apply_edits leads to END instead of agent.
ApplyEdits_then_end ==
    /\ pc = "apply_edits"
    /\ edit_from' = artifact
    /\ artifact' = apply_edits(artifact, messages)
    /\ applied' = Append(applied, LatestToolCalls(messages))
    /\ pc' = "done"
    /\ UNCHANGED <<messages, ui, nextId, prompt, turn_start, turn_ui, turns, calls>>

\* The apply_edits node, followed by the edge back to agent.
ApplyEdits ==
    /\ pc = "apply_edits"
    /\ edit_from' = artifact
    /\ artifact' = apply_edits(artifact, messages)
    /\ applied' = Append(applied, LatestToolCalls(messages))
    /\ pc' = "agent"
    /\ UNCHANGED <<messages, ui, nextId, prompt, turn_start, turn_ui, turns, calls>>

Next ==
    \/ StartTurn
    \/ AgentFinal
    \/ AgentCalls
    \/ AgentFails
    \/ Tools
    \/ ApplyEdits

Spec == Init /\ [][Next]_vars

\* The steps that fairness is stated for, told by the node the graph leaves and
\* the node it enters: Tools is the only action from tools to apply_edits,
\* ApplyEdits the only one from apply_edits to agent, AgentFinal the only one
\* from agent to done.
ToolsRuns == pc = "tools" /\ pc' = "apply_edits"
ApplyEditsRuns == pc = "apply_edits" /\ pc' = "agent"
ModelAnswersPlainly == pc = "agent" /\ pc' = "done"

\* The graph runs a scheduled node to completion (tools, apply_edits), and
\* the model, asked again and again, eventually answers without tool calls.
LiveSpec ==
    /\ Init
    /\ [][Next]_vars
    /\ WF_pc(ToolsRuns)
    /\ WF_pc(ApplyEditsRuns)
    /\ SF_pc(ModelAnswersPlainly)

---------------------------------------------------------------------------
(* The edit specification: apply_edits on every incoming artifact and batch *)

ArgTexts == TextsUpTo(ArgChar, MaxArgLen)

\* every argument mapping of a tool: each parameter absent or a text
ArgsOver(params) ==
    UNION {[ks -> ArgTexts] : ks \in SUBSET params}

EditCalls ==
    {ToolCall(n, a) : n \in {"update_document"}, a \in ArgsOver({"new_content"})}
    \cup {ToolCall(n, a) : n \in {"append_to_document"}, a \in ArgsOver({"content_to_add"})}
    \cup {ToolCall(n, a) : n \in {"replace_text"}, a \in ArgsOver({"old_text", "new_text"})}
    \cup {ToolCall("delete_document", NoArgs)}

EditArtifacts == TextsUpTo(Char, MaxArtifactLen) \cup {None}

\* The state when apply_edits is entered in the first cycle of a turn on an
\* incoming state: the user message, the model's calls, ToolNode's results.
EditInit ==
    /\ artifact \in EditArtifacts
    /\ \E tool_calls \in Batches(EditCalls, 1) \cup Batches(ModelCalls, MaxBatch) :
          LET m == <<HumanMessage(1), AIMessage(2, tool_calls)>>
          IN  /\ messages = add_messages(m, ToolNode(m, 3))
              /\ nextId = 3 + Len(tool_calls)
              /\ calls = Len(tool_calls)
    /\ ui = <<>>
    /\ pc = "apply_edits"
    /\ prompt = ArtifactOrDefault(artifact)
    /\ edit_from = None
    /\ turn_start = 0
    /\ turn_ui = 0
    /\ turns = 1
    /\ applied = <<>>

EditSpec == EditInit /\ [][ApplyEdits]_vars

---------------------------------------------------------------------------
(* The routing specification: should_continue on every history *)

\* The messages a history may hold at position i.
RouteMessages(i) ==
    { HumanMessage(i),
      AIMessage(i, <<>>),
      AIMessage(i, <<ToolCall("append_to_document", [content_to_add |-> <<"b">>])>>),
      ToolMessage(i, ToolReturn("append_to_document"), 1) }

\* Every history of up to MaxHistory messages, the empty one included.
RouteHistories ==
    UNION { {h \in [1..k -> UNION {RouteMessages(i) : i \in 1..k}] :
                \A i \in 1..k : h[i].id = i} : k \in 0..MaxHistory }

RouteInit ==
    /\ messages \in RouteHistories
    /\ pc = "route"
    /\ ui = <<>>
    /\ artifact = None
    /\ nextId = Len(messages) + 1
    /\ prompt = None
    /\ edit_from = None
    /\ turn_start = 0
    /\ turn_ui = 0
    /\ turns = 1
    /\ calls = 0
    /\ applied = <<>>

\* The conditional edge: should_continue on the state picks the next node.
Route ==
    /\ pc = "route"
    /\ pc' = IF should_continue(messages) = "tools" THEN "tools" ELSE "done"
    /\ UNCHANGED <<messages, ui, artifact, nextId, prompt, edit_from,
                   turn_start, turn_ui, turns, calls, applied>>

RouteSpec == RouteInit /\ [][Route]_vars

---------------------------------------------------------------------------
(* Vocabulary of the properties *)

Last(seq) == seq[Len(seq)]

\* The artifact of a state, an absent key standing for the default artifact
\* (spec.md section 3: "initialized to a fixed default value when absent").
ArtifactValue(a) == IF a = None THEN DEFAULT_ARTIFACT ELSE a

\* apply_edits has just run: the graph is back at agent and the history ends
\* with ToolNode's results.
Applied == pc = "agent" /\ messages # <<>> /\ Last(messages).type = "tool"

\* The batch apply_edits has just applied.
Batch == LatestToolCalls(messages)

\* The messages the current turn has added to the history.
TurnMessages == SubSeq(messages, turn_start + 1, Len(messages))

Update(x) == ToolCall("update_document", [new_content |-> x])
AppendTo(x) == ToolCall("append_to_document", [content_to_add |-> x])
Replace(x, y) == ToolCall("replace_text", [old_text |-> x, new_text |-> y])

---------------------------------------------------------------------------
(* C1 *)

C1_DoneOnlyAfterPlainResponse ==
    pc = "done" =>
        /\ messages # <<>>
        /\ Last(messages).type = "ai"
        /\ Last(messages).tool_calls = <<>>

C1_AgentRoutes ==
    (pc = "agent" /\ pc' # "agent" /\ pc' # "failed") =>
        /\ Len(messages') = Len(messages) + 1
        /\ Last(messages').type = "ai"
        /\ (Last(messages').tool_calls # <<>> => pc' = "tools")
        /\ (Last(messages').tool_calls = <<>> => pc' = "done")

C1_LoopBack ==
    /\ pc = "tools" /\ pc' # "tools" => pc' = "apply_edits"
    /\ pc = "apply_edits" /\ pc' # "apply_edits" => pc' = "agent"

\* C1: a model response with tool calls sends the turn through tools and
\* apply_edits back to agent and never to done; a response without tool calls
\* ends the turn; done is only ever entered by such a response; and in every
\* behaviour where the model invocation never fails, a turn waiting for the
\* model eventually reaches done.
C1_LoopTerminatesExactlyOnPlainResponse ==
    /\ []C1_DoneOnlyAfterPlainResponse
    /\ [][C1_AgentRoutes]_vars
    /\ [][C1_LoopBack]_vars
    /\ ([](pc # "failed") => [](pc = "agent" => <>(pc = "done")))

\* A turn has ended after at least one edit cycle.
C1_Witness ==
    /\ pc = "done"
    /\ \E i \in (turn_start + 1)..Len(messages) : HasToolCalls(messages[i])

---------------------------------------------------------------------------
(* C2 *)

\* C2: after apply_edits the artifact is the result of applying the calls of
\* the batch one after the other in their declared order, the first to the
\* artifact apply_edits started from and each later one to the result of the
\* call before it; the batch [update_document("a"), append_to_document("b")]
\* leaves "a\n\nb" whatever the artifact was.
C2_BatchAppliedInOrder ==
    Applied =>
        LET n == Len(Batch)
            after[i \in 0..n] ==
                IF i = 0 THEN ArtifactOrDefault(edit_from)
                ELSE ApplyCall(after[i - 1], Batch[i])
        IN  /\ artifact = after[n]
            /\ Batch = <<Update(<<"a">>), AppendTo(<<"b">>)>>
                   => artifact = <<"a", NL, NL, "b">>

\* The batch [update, append] has been applied to an artifact that the
\* append alone would have extended.
C2_Witness ==
    /\ Applied
    /\ Batch = <<Update(<<"a">>), AppendTo(<<"b">>)>>
    /\ edit_from = <<"b", "b", NL>>
    /\ artifact = <<"a", NL, NL, "b">>

---------------------------------------------------------------------------
(* replace_text calls *)

\* apply_edits has just applied a batch of one call to the tool `name`.
AppliedOne(name) == Applied /\ Len(Batch) = 1 /\ Batch[1].name = name

\* The arguments of that call as apply_edits reads them.
OldText == Get(Batch[1].args, "old_text", <<>>)
NewText == Get(Batch[1].args, "new_text", <<>>)

\* The artifact before the call, an absent key standing for the default.
Before == ArtifactValue(edit_from)

Chars(s) == {s[i] : i \in 1..Len(s)}

\* The pieces of s between the occurrences of old that a left-to-right scan
\* meets (old is not empty).
RECURSIVE Split(_, _)
Split(s, old) ==
    IF ~In(old, s) THEN <<s>>
    ELSE <<SubSeq(s, 1, Find(old, s) - 1)>>
         \o Split(SubSeq(s, Find(old, s) + Len(old), Len(s)), old)

RECURSIVE Join(_, _)
Join(pieces, sep) ==
    IF Len(pieces) = 1 THEN pieces[1]
    ELSE pieces[1] \o sep \o Join(Tail(pieces), sep)

---------------------------------------------------------------------------
(* C3 *)

\* C3 as written: after replace_text(T, U) on an artifact that contains the
\* non-empty T, with U not containing T, the artifact contains no T.
C3_NoOccurrenceLeft ==
    (AppliedOne("replace_text") /\ OldText # <<>> /\ In(OldText, Before)
        /\ ~In(OldText, NewText))
    => ~In(OldText, artifact)

\* C3 amended: after replace_text(T, U) on an artifact that contains the
\* non-empty T, the artifact is the pieces between the occurrences of T joined
\* by U, and no piece contains T: an occurrence of T in the result touches an
\* inserted U or bridges the place of a removed T.  When U is not empty and
\* shares no character with T, the result contains no T.
C3_NoOccurrenceInKeptText ==
    (AppliedOne("replace_text") /\ OldText # <<>> /\ In(OldText, Before))
    => LET pieces == Split(Before, OldText)
       IN  /\ artifact = Join(pieces, NewText)
           /\ \A i \in 1..Len(pieces) : ~In(OldText, pieces[i])
           /\ (NewText # <<>> /\ Chars(NewText) \cap Chars(OldText) = {})
                 => ~In(OldText, artifact)

\* replace_text("ab", "b") on "aab": the "a" kept and the "b" inserted form
\* "ab" again.
C3_Witness ==
    /\ AppliedOne("replace_text")
    /\ OldText = <<"a", "b">>
    /\ NewText = <<"b">>
    /\ edit_from = <<"a", "a", "b">>
    /\ artifact = <<"a", "b">>

---------------------------------------------------------------------------
(* C4 *)

\* The call lacks parameter k, or carries it as an empty text.
MissingOrEmpty(call, k) == ~Truthy(call.args, k)

---------------------------------------------------------------------------
(* C5 *)

\* C5 as written: the artifact embedded in the preamble of a model invocation
\* is the state's artifact as the last edit application left it (the default
\* artifact when the state has none).
C5_PromptEmbedsLatestArtifact ==
    pc \in {"tools", "done"} => prompt = ArtifactValue(artifact)

---------------------------------------------------------------------------
(* C6 *)

\* C6 as written: while a turn runs no notification has been emitted for it;
\* when it is done exactly one has, and it carries the current artifact and the
\* id of the assistant message that ended the turn.
C6_OneNotificationWithCurrentArtifact ==
    /\ pc \in {"agent", "tools", "apply_edits"} => Len(ui) = turn_ui
    /\ pc = "done" =>
          /\ Len(ui) = turn_ui + 1
          /\ Last(ui).content = ArtifactValue(artifact)
          /\ Last(ui).message_id = Last(messages).id

---------------------------------------------------------------------------
(* C7 *)

---------------------------------------------------------------------------
(* C8 *)

\* t is a user message, then cycles of one assistant message with tool calls
\* followed by one tool result per call, in the order of the calls, then one
\* assistant message without tool calls.
IsCompletedTurn(t) ==
    /\ Len(t) >= 2
    /\ t[1].type = "human"
    /\ t[2].type = "ai"
    /\ t[Len(t)].type = "ai" /\ t[Len(t)].tool_calls = <<>>
    /\ \A i \in 2..Len(t) :
          /\ t[i].type \in {"ai", "tool"}
          /\ (t[i].type = "ai" /\ i < Len(t)) =>
                LET k == Len(t[i].tool_calls)
                IN  /\ k >= 1
                    /\ i + k + 1 <= Len(t)
                    /\ \A j \in 1..k : t[i + j].type = "tool" /\ t[i + j].index = j
                    /\ t[i + k + 1].type = "ai"
          /\ t[i].type = "tool" =>
                /\ i - t[i].index >= 2
                /\ t[i - t[i].index].type = "ai"
                /\ t[i].index <= Len(t[i - t[i].index].tool_calls)

\* C8: when a turn is done, the messages it added are a user message, the
\* cycles (assistant message with calls, one tool result per call) and a final
\* assistant message without calls; a first turn on a state without artifact
\* whose single cycle is one append_to_document("b") ends with four messages
\* and the default artifact, right-trimmed, followed by two newlines and "b".
C8_TurnHistoryShape ==
    pc = "done" =>
        /\ IsCompletedTurn(TurnMessages)
        /\ (turn_start = 0
              /\ messages[2].tool_calls = <<AppendTo(<<"b">>)>>
              /\ Cardinality({i \in 1..Len(messages) : HasToolCalls(messages[i])}) = 1)
           => /\ Len(messages) = 4
              /\ <<messages[1].type, messages[2].type, messages[3].type, messages[4].type>>
                    = <<"human", "ai", "tool", "ai">>
              /\ artifact = <<"d", NL, NL, "b">>

C8_Witness ==
    /\ pc = "done"
    /\ turn_start = 0
    /\ Len(messages) = 4
    /\ messages[2].tool_calls = <<AppendTo(<<"b">>)>>
    /\ messages[3].type = "tool"
    /\ artifact = <<"d", NL, NL, "b">>

---------------------------------------------------------------------------
(* C9 *)

\* s with old replaced by new, by a scan over the positions of s: at a
\* position where old occurs, new is written and the scan jumps over old;
\* elsewhere the character is copied.
ScanReplace(s, old, new) ==
    LET n == Len(s)
        out[i \in 1..(n + 1)] ==
            IF i > n THEN <<>>
            ELSE IF OccursAt(old, s, i) THEN new \o out[i + Len(old)]
            ELSE <<s[i]>> \o out[i + 1]
    IN  out[1]

\* The number of occurrences of old the scan meets from position i on.
ScanCount(s, old) ==
    LET n == Len(s)
        cnt[i \in 1..(n + 1)] ==
            IF i > n THEN 0
            ELSE IF OccursAt(old, s, i) THEN 1 + cnt[i + Len(old)]
            ELSE cnt[i + 1]
    IN  cnt[1]

\* C9: after replace_text(T, U) with a non-empty T that occurs in the
\* artifact, the artifact is the old one with every occurrence of T that a
\* left-to-right scan meets replaced by U: none of them is left in place.
C9_ReplacesEveryOccurrence ==
    (AppliedOne("replace_text") /\ OldText # <<>> /\ In(OldText, Before))
    => /\ artifact = ScanReplace(Before, OldText, NewText)
       /\ Len(artifact) + ScanCount(Before, OldText) * Len(OldText)
             = Len(Before) + ScanCount(Before, OldText) * Len(NewText)

\* replace_text("a", "b") on "aba", where "a" occurs twice.
C9_Witness ==
    /\ AppliedOne("replace_text")
    /\ OldText = <<"a">>
    /\ NewText = <<"b">>
    /\ edit_from = <<"a", "b", "a">>
    /\ artifact = <<"b", "b", "b">>

---------------------------------------------------------------------------
(* C10 *)

\* C10 as written: replace_text(T, U) with T empty, or T not occurring in the
\* artifact, leaves the artifact as it was.
C10_UnmatchedReplaceIsNoOp ==
    (AppliedOne("replace_text") /\ (OldText = <<>> \/ ~In(OldText, Before)))
    => ArtifactValue(artifact) = Before

---------------------------------------------------------------------------
(* C11 *)

\* C11 as written: append_to_document(S) with a non-empty S leaves the
\* artifact A right-trimmed, two newlines and S; two appends in one batch leave
\* the result of the first right-trimmed, two newlines and the second section;
\* with S empty or absent the artifact stays A.
C11_AppendAfterTrimmedArtifact ==
    /\ AppliedOne("append_to_document") =>
          LET S == Get(Batch[1].args, "content_to_add", <<>>)
          IN  IF S # <<>>
              THEN artifact = rstrip(Before) \o <<NL, NL>> \o S
              ELSE ArtifactValue(artifact) = Before
    /\ (Applied /\ Len(Batch) = 2
          /\ Batch[1] = AppendTo(<<"b">>) /\ Batch[2] = AppendTo(<<"b">>))
       => artifact = rstrip(rstrip(Before) \o <<NL, NL, "b">>) \o <<NL, NL, "b">>

---------------------------------------------------------------------------
(* C12 *)

\* C12 as written: update_document(S) with a non-empty S leaves exactly S as
\* the artifact; with S empty or absent the artifact stays what it was.
C12_UpdateReplacesOrKeeps ==
    AppliedOne("update_document") =>
        LET S == Get(Batch[1].args, "new_content", <<>>)
        IN  IF S # <<>> THEN artifact = S
            ELSE ArtifactValue(artifact) = Before

---------------------------------------------------------------------------
(* C13 *)

IsKnownTool(call) == call.name \in TOOLS

\* C13: in the loop of apply_edits a call whose name is none of the three tools
\* leaves the artifact the loop has reached as it is, and the artifact after
\* the batch is the one that the batch without its unknown calls gives, from
\* the same artifact read on entry.
C13_UnknownCallsIgnored ==
    Applied =>
        LET n == Len(Batch)
            after[i \in 0..n] ==
                IF i = 0 THEN ArtifactOrDefault(edit_from)
                ELSE ApplyCall(after[i - 1], Batch[i])
        IN  /\ \A i \in 1..n : ~IsKnownTool(Batch[i]) => after[i] = after[i - 1]
            /\ artifact = after[n]
            /\ artifact = ApplyCalls(ArtifactOrDefault(edit_from),
                                     SelectSeq(Batch, IsKnownTool))

\* An unknown call came first in the batch and the append after it was applied.
C13_Witness ==
    /\ Applied
    /\ Batch = <<ToolCall("delete_document", NoArgs), AppendTo(<<"b">>)>>
    /\ edit_from = <<"a">>
    /\ artifact = <<"a", NL, NL, "b">>

---------------------------------------------------------------------------
(* C14 *)

\* C14: should_continue routes to tools exactly when the history is not empty
\* and its last message carries tool calls, and to END otherwise, the empty
\* history included; a history with the same last message is routed the same
\* way, whatever its earlier messages carry.
C14_RoutesOnLastMessageOnly ==
    pc \in {"tools", "done"} =>
        /\ should_continue(messages) \in {"tools", END}
        /\ pc = "tools" <=> (messages # <<>> /\ Last(messages).tool_calls # <<>>)
        /\ messages = <<>> => should_continue(messages) = END
        /\ \A h \in RouteHistories :
              (h # <<>> /\ messages # <<>> /\ Last(h) = Last(messages))
              => should_continue(h) = should_continue(messages)

\* A history whose first message carries tool calls and whose last message
\* carries none has been routed to the end.
C14_Witness ==
    /\ pc = "done"
    /\ Len(messages) = MaxHistory
    /\ HasToolCalls(messages[1])
    /\ Last(messages).type = "ai"
    /\ Last(messages).tool_calls = <<>>

---------------------------------------------------------------------------
(* C15 *)

C15_FailedStepChangesNothing ==
    (pc = "agent" /\ pc' = "failed") =>
        /\ artifact' = artifact
        /\ messages' = messages
        /\ ui' = ui

C15_NoRetry ==
    pc = "failed" =>
        /\ pc' = "failed"
        /\ messages' = messages
        /\ artifact' = artifact

C15_ArtifactWrittenAfterResponseWithCalls ==
    artifact' # artifact =>
        /\ pc = "apply_edits"
        /\ \E i \in (turn_start + 1)..Len(messages) : HasToolCalls(messages[i])
        /\ Last(messages).type = "tool"

\* C15: a step in which the model invocation fails leaves the artifact, the
\* history and the notifications as they were and ends the turn as failed; no
\* step follows a failure (the model is not invoked again); a failed turn has
\* emitted no notification; and the artifact changes only in apply_edits, after
\* a response of this turn that carries tool calls and its tool results.
C15_ModelFailureIsFatalAndClean ==
    /\ [][C15_FailedStepChangesNothing]_vars
    /\ [][C15_NoRetry]_vars
    /\ [][C15_ArtifactWrittenAfterResponseWithCalls]_vars
    /\ [](pc = "failed" => Len(ui) = turn_ui)

\* The model invocation has failed in a later cycle of a turn, after an edit.
C15_Witness ==
    /\ pc = "failed"
    /\ Last(messages).type = "tool"
    /\ artifact = <<"a">>
    /\ Len(ui) = turn_ui

---------------------------------------------------------------------------
(* C16 *)

C16_HistoryGrowsByAppending ==
    /\ Len(messages') >= Len(messages)
    /\ SubSeq(messages', 1, Len(messages)) = messages

\* C16: in every step (a new turn's user message, the model step, the tool
\* results, the edit application) the history before the step is a prefix of
\* the history after it.
C16_HistoryIsAppendOnly == [][C16_HistoryGrowsByAppending]_vars

\* A second turn has ended on top of the history of a first turn that went
\* through an edit cycle.
C16_Witness ==
    /\ pc = "done"
    /\ turns = 2
    /\ turn_start >= 4
    /\ Len(messages) >= turn_start + 4

---------------------------------------------------------------------------
(* C17 *)

C17_OnlyApplyEditsWritesArtifact ==
    /\ pc # "apply_edits" => artifact' = artifact
    /\ artifact' # artifact => pc = "apply_edits" /\ pc' = "agent"

C17_ApplyEditsWritesOnlyArtifact ==
    pc = "apply_edits" => messages' = messages /\ ui' = ui

\* C17: a step of the agent node, of the tools node, or the arrival of a user
\* message leaves the state's artifact as it is (an absent key stays absent);
\* the artifact changes only in a step of apply_edits, and that step leaves the
\* history and the notifications as they are.
C17_ArtifactFrame ==
    /\ [][C17_OnlyApplyEditsWritesArtifact]_vars
    /\ [][C17_ApplyEditsWritesOnlyArtifact]_vars

\* In a second turn, with a notification already emitted, apply_edits has
\* changed the artifact.
C17_Witness ==
    /\ Applied
    /\ turns = 2
    /\ Len(ui) = 1
    /\ edit_from = <<"a">>
    /\ artifact = <<"a", NL, NL, "b">>

---------------------------------------------------------------------------
(* C18 *)

\* The nodes that the edges of the graph schedule after `node` has returned
\* with history msgs ("done" standing for END).
Edges(node, msgs) ==
    CASE node = "agent" ->
            {IF should_continue(msgs) = "tools" THEN "tools" ELSE "done"}
      [] node = "tools" -> {"apply_edits"}
      [] node = "apply_edits" -> {"agent"}
      [] OTHER -> {}

\* The graph is at one node, or between turns.
C18_OnePhase ==
    pc \in {"idle", "agent", "tools", "apply_edits", "done", "failed"}

\* A node that returns schedules exactly one node, the one the graph is at
\* next: no step starts two nodes.
C18_NoFanOut ==
    (pc \in {"agent", "tools", "apply_edits"} /\ pc' # "failed") =>
        /\ Cardinality(Edges(pc, messages')) = 1
        /\ Edges(pc, messages') = {pc'}

\* When apply_edits is about to run, the history of the turn ends with an
\* assistant message that carries tool calls and one tool result per call.
C18_EditsFollowRecordedResults ==
    pc = "apply_edits" =>
        \E i \in (turn_start + 1)..Len(messages) :
            /\ HasToolCalls(messages[i])
            /\ Len(messages) = i + Len(messages[i].tool_calls)
            /\ \A j \in 1..Len(messages[i].tool_calls) :
                  messages[i + j].type = "tool" /\ messages[i + j].index = j

C18_PhasesAlternate ==
    /\ pc = "agent" =>
          /\ pc' \in {"tools", "done", "failed"}
          /\ pc' = "tools" => HasToolCalls(Last(messages'))
    /\ pc = "tools" => pc' = "apply_edits"
    /\ pc = "apply_edits" => pc' = "agent"
    /\ pc' = "apply_edits" => pc = "tools"
    /\ pc' = "tools" => pc = "agent"
    /\ pc' = "agent" => pc \in {"idle", "done", "apply_edits"}

\* C18: the graph is at one node at a time; apply_edits is entered only from
\* tools, which is entered only from a model step whose response carries tool
\* calls, so that its tool results are in the history; the step out of
\* apply_edits leads to agent, a model step never leads to another model step,
\* and (the nodes running to completion) apply_edits is always followed by the
\* next model invocation.
C18_PhasesStrictlyAlternate ==
    /\ []C18_OnePhase
    /\ []C18_EditsFollowRecordedResults
    /\ [][C18_PhasesAlternate]_vars
    /\ [][C18_NoFanOut]_vars
    /\ [](pc = "apply_edits" => <>(pc = "agent"))

\* The second edit application of one turn is over: the model is awaited again.
C18_Witness ==
    /\ Applied
    /\ turns = 1
    /\ Len(applied) = 2

---------------------------------------------------------------------------
(* C19 *)

\* The tool call that the tool message at position p of the history answers.
CallOf(p) == messages[p - messages[p].index].tool_calls[messages[p].index]

\* C19 as written: the content of every tool message that answers a call of
\* one of the three tools is the fixed confirmation of that tool, whatever the
\* arguments of the call are and whatever the call does to the artifact.
C19_ResultIsFixedConfirmation ==
    \A p \in 1..Len(messages) :
        (messages[p].type = "tool" /\ CallOf(p).name \in TOOLS)
        => messages[p].content = ToolReturn(CallOf(p).name)

---------------------------------------------------------------------------
(* C20 *)

\* The batches of the history: the tool calls of each assistant message that
\* carries any, oldest first.
AllBatches(msgs) ==
    LET sel == SelectSeq(msgs, HasToolCalls)
    IN  [i \in 1..Len(sel) |-> sel[i].tool_calls]

\* C20: the k-th run of apply_edits applies the k-th batch of the history.
\* While a batch waits in tools or apply_edits, the batches applied so far are
\* all the batches but this newest one; once apply_edits has run, and when a
\* turn is done, they are all the batches, each once and in order, those of
\* earlier cycles and turns included; and the artifact apply_edits leaves is
\* the newest batch applied to the artifact it read.
C20_EachBatchAppliedOnce ==
    /\ pc \in {"idle", "agent", "done", "failed"} => applied = AllBatches(messages)
    /\ pc \in {"tools", "apply_edits"} =>
          /\ HasToolCalls(messages[Len(messages) - (IF pc = "tools" THEN 0
                            ELSE Len(Last(AllBatches(messages))))])
          /\ AllBatches(messages) = applied \o <<Last(AllBatches(messages))>>
    /\ Applied =>
          artifact = ApplyCalls(ArtifactOrDefault(edit_from), Last(AllBatches(messages)))

\* Two turns with one edit cycle each are done, and the second batch differs
\* from the first.
C20_Witness ==
    /\ pc = "done"
    /\ turns = 2
    /\ turn_start = 4
    /\ Len(applied) = 2
    /\ applied[1] # applied[2]
    /\ HasToolCalls(messages[2])
    /\ HasToolCalls(messages[turn_start + 2])

=============================================================================
